---- MODULE Spec2Model ----
(***************************************************************************)
(* A model of src/main.rs of ipv4-route-summary: parsing of dotted-decimal *)
(* addresses and masks, the derivation of the bitmask from a prefix        *)
(* length, the common-prefix scan of create_summary_route and the loop of  *)
(* main over the input records.                                            *)
(*                                                                         *)
(* A u32 is a tuple of 32 bits, most significant bit first (index 1 is bit *)
(* 31, index 32 is bit 0), because its values do not fit the integers of   *)
(* the model checker. A string is a tuple of one-character strings.        *)
(* Arithmetic overflow panics in a debug build and wraps in a release      *)
(* build, and from_ne_bytes depends on the byte order of the target: both  *)
(* are fixed, nondeterministically, in the initial state.                  *)
(***************************************************************************)
EXTENDS Integers, Sequences, FiniteSets, TLC

VARIABLES
    build,                      \* "debug" | "release": overflow checks on or off
    endian,                     \* "little" | "big": byte order of the target
    pc,                         \* position of the program
    lines,                      \* main: the records the reader yields
    line_no,                    \* main: how many of them were consumed
    pairs,                      \* main / create_summary_route: Vec<(IPv4Address, IPv4Mask)>
    output,                     \* main: the lines printed so far
    addr,                       \* the Option<IPv4Address> of the last address parse
    s,                          \* the string being parsed
    mask_val,                   \* IPv4Mask::parse: `mask`, the parsed u32
    temp_mask,                  \* IPv4Mask::parse: `temp_mask`
    counter,                    \* IPv4Mask::parse: `counter`
    mask,                       \* the Option<IPv4Mask> IPv4Mask::parse returned
    common_network_part_bits,   \* create_summary_route: the loop counter
    summary,                    \* create_summary_route: the returned pair
    shown                       \* Display of the parsed address

vars == <<build, endian, pc, lines, line_no, pairs, output, addr, s, mask_val,
          temp_mask, counter, mask, common_network_part_bits, summary, shown>>

----------------------------------------------------------------------------
(* Bounds of the model.                                                    *)

\* the longest list create_summary_route is called with in SpecSummary
MaxPairs == 2
\* the most records main reads
MaxLines == 3
\* the cap on the two loop counters. In the source they are usize: a loop
\* that never exits counts on to usize::MAX, where a debug build panics on
\* the addition and a release build wraps to 0; the model stops counting at
\* the cap, beyond the 32 bits the loops are about
MaxCount == 34

----------------------------------------------------------------------------
(* u32 as 32 bits, most significant first.                                 *)

U32Width == 32

BitIdx == 1..U32Width

Zero32 == [i \in BitIdx |-> 0]

U32Max == [i \in BitIdx |-> 1]

\* the literal 1 (as in `1 << k`)
One32 == [i \in BitIdx |-> IF i = U32Width THEN 1 ELSE 0]

\* x & y
BitAnd(x, y) == [i \in BitIdx |-> x[i] * y[i]]

\* x << k for 0 <= k < 32
Shl(x, k) == [i \in BitIdx |-> IF i + k <= U32Width THEN x[i + k] ELSE 0]

\* x >> k for 0 <= k < 32
Shr(x, k) == [i \in BitIdx |-> IF i - k >= 1 THEN x[i - k] ELSE 0]

RECURSIVE Pow2(_)
Pow2(k) == IF k = 0 THEN 1 ELSE 2 * Pow2(k - 1)

\* the 8 bits of a byte value, most significant first
ByteBits(v) == [j \in 1..8 |-> (v \div Pow2(8 - j)) % 2]

\* the value of the low 8 bits of x (x & 0xff as a number)
LowByte(x) ==
    LET b == [j \in 1..8 |-> x[U32Width - 8 + j]]
    IN  b[1] * 128 + b[2] * 64 + b[3] * 32 + b[4] * 16
        + b[5] * 8 + b[6] * 4 + b[7] * 2 + b[8]

\* the u32 whose bytes are m1 (most significant) .. m4 (least significant)
PackMsbFirst(m1, m2, m3, m4) ==
    LET m == <<m1, m2, m3, m4>>
    IN  [i \in BitIdx |-> ByteBits(m[((i - 1) \div 8) + 1])[((i - 1) % 8) + 1]]

\* u32::from_ne_bytes(b): b[1] is the byte at the lowest address
FromNeBytes(b, e) ==
    IF e = "little"
    THEN PackMsbFirst(b[4], b[3], b[2], b[1])
    ELSE PackMsbFirst(b[1], b[2], b[3], b[4])

----------------------------------------------------------------------------
(* Strings and the parsing of unsigned integers.                           *)

Digits == <<"0", "1", "2", "3", "4", "5", "6", "7", "8", "9">>

DigitValue(c) ==
    IF \E d \in 1..10 : Digits[d] = c
    THEN (CHOOSE d \in 1..10 : Digits[d] = c) - 1
    ELSE -1

\* the failure of str::parse
ParseErr == -1

Contains(str, c) == \E i \in 1..Len(str) : str[i] = c

\* str::split(sep): the pieces between the separators, empty ones kept
RECURSIVE Split(_, _)
Split(str, sep) ==
    IF Contains(str, sep)
    THEN LET i == CHOOSE i \in 1..Len(str) :
                      str[i] = sep /\ \A j \in 1..(i - 1) : str[j] # sep
         IN  <<SubSeq(str, 1, i - 1)>> \o Split(SubSeq(str, i + 1, Len(str)), sep)
    ELSE <<str>>

\* str::trim(): leading and trailing blanks removed
RECURSIVE Trim(_)
Trim(str) ==
    IF str = <<>> THEN str
    ELSE IF Head(str) = " " THEN Trim(Tail(str))
    ELSE IF str[Len(str)] = " " THEN Trim(SubSeq(str, 1, Len(str) - 1))
    ELSE str

RECURSIVE DigitsValue(_, _)
DigitsValue(str, acc) ==
    IF str = <<>> THEN acc
    ELSE IF DigitValue(Head(str)) = -1 THEN ParseErr
    ELSE DigitsValue(Tail(str), acc * 10 + DigitValue(Head(str)))

\* str::parse for an unsigned type, before the range check: an optional
\* leading "+", then one or more decimal digits
ParseUnsigned(str) ==
    LET body == IF str # <<>> /\ Head(str) = "+" THEN Tail(str) ELSE str
    IN  IF body = <<>> THEN ParseErr ELSE DigitsValue(body, 0)

U8Max == 255

\* x.parse::<u8>()
ParseU8(str) ==
    LET v == ParseUnsigned(str)
    IN  IF v > U8Max THEN ParseErr ELSE v

\* usize::MAX = 18446744073709551615 has 20 digits
UsizeMaxDigits == 20

RECURSIVE StripZeros(_)
StripZeros(str) ==
    IF str # <<>> /\ Head(str) = "0" THEN StripZeros(Tail(str)) ELSE str

\* s.parse::<usize>(): a number of more than 20 significant digits overflows
\* usize and is an error; the model has no string of 10 to 20 digits, whose
\* values are beyond the integers of the model checker
ParseUsize(str) ==
    LET body == IF str # <<>> /\ Head(str) = "+" THEN Tail(str) ELSE str
    IN  IF /\ \A i \in 1..Len(body) : DigitValue(body[i]) # -1
           /\ Len(StripZeros(body)) > UsizeMaxDigits
        THEN ParseErr
        ELSE ParseUnsigned(str)

\* the decimal rendering of a number ("{}")
RECURSIVE ToDec(_)
ToDec(n) ==
    IF n < 10 THEN <<Digits[n + 1]>>
    ELSE ToDec(n \div 10) \o <<Digits[(n % 10) + 1]>>

----------------------------------------------------------------------------
(* Option values.                                                          *)

NoneU32 == [some |-> FALSE, v |-> Zero32]
SomeU32(x) == [some |-> TRUE, v |-> x]

NoneMask == [some |-> FALSE, v |-> 0]
SomeMask(n) == [some |-> TRUE, v |-> n]

----------------------------------------------------------------------------
(* The pure functions of the source.                                       *)

Reverse(q) == [i \in 1..Len(q) |-> q[Len(q) + 1 - i]]

\* parse_octets(s) on a target of byte order e
ParseOctets(str, e) ==
    LET octets_str == Split(str, ".")
    IN  IF Len(octets_str) # 4 THEN NoneU32
        ELSE LET parsed  == [i \in 1..4 |-> ParseU8(octets_str[i])]
                 invalid == \E i \in 1..4 : parsed[i] = ParseErr
                 octets  == Reverse([i \in 1..4 |->
                                IF parsed[i] = ParseErr THEN 0 ELSE parsed[i]])
             IN  IF ~invalid THEN SomeU32(FromNeBytes(octets, e)) ELSE NoneU32

\* IPv4Address::parse(s)
IPv4AddressParse(str, e) == ParseOctets(str, e)

\* fmt::Display for IPv4Address: "{}.{}.{}.{}" of the four octets
DisplayAddress(x) ==
    LET octet1 == LowByte(Shr(x, 24))
        octet2 == LowByte(Shr(x, 16))
        octet3 == LowByte(Shr(x, 8))
        octet4 == LowByte(x)
    IN  ToDec(octet1) \o <<".">> \o ToDec(octet2) \o <<".">>
        \o ToDec(octet3) \o <<".">> \o ToDec(octet4)

\* fmt::Display for IPv4Mask
DisplayMask(n) == ToDec(n)

\* u32::checked_shl(rhs): None when rhs is not below 32
CheckedShl(x, rhs) == IF rhs \in 0..(U32Width - 1) THEN SomeU32(Shl(x, rhs)) ELSE NoneU32

\* IPv4Mask::netid_mask(&self) for self.0 = n. For n > 32 (which no caller
\* passes) a release build wraps 32 - n to a shift of 32 or more
NetidMask(n) ==
    IF n = 0 THEN Zero32
    ELSE IF n = 32 THEN U32Max
    ELSE LET r == CheckedShl(U32Max, 32 - n)
         IN  IF r.some THEN r.v ELSE U32Max

----------------------------------------------------------------------------
(* create_summary_route(pairs), one action per pass of the outer loop.     *)
(* A pair is [ip |-> the address, mask |-> the prefix length].             *)

\* a scan that starts at the least significant bit
ScanBitFromLsb(n) == Shl(One32, n % 32)

\* `1 << (31 - common_network_part_bits)` once the subtraction did not
\* panic: a release build wraps 31 - n and masks the shift count to 5 bits
ScanBit(n) == Shl(One32, (31 - n) % 32)

\* `31 - common_network_part_bits` overflows usize
SubOverflows(n) == n > 31

\* `ip.0 & bit != pairs[0].0 .0 & bit`
Disagrees(pair, first, n) ==
    BitAnd(pair.ip, ScanBit(n)) # BitAnd(first.ip, ScanBit(n))

\* the pair built after the loop
SummaryOf(first, n) == [ip |-> BitAnd(first.ip, NetidMask(n)), mask |-> n]

\* a pass of the outer loop in which no pair breaks out of it; with no pair
\* at all the body of the inner loop never runs
SummaryIter ==
    /\ pc = "summary"
    /\ common_network_part_bits < MaxCount
    /\ (pairs # <<>> /\ build = "debug") => ~SubOverflows(common_network_part_bits)
    /\ \A i \in 1..Len(pairs) :
           ~Disagrees(pairs[i], pairs[1], common_network_part_bits)
    /\ common_network_part_bits' = common_network_part_bits + 1
    /\ UNCHANGED <<build, endian, pc, lines, line_no, pairs, output, addr, s,
                   mask_val, temp_mask, counter, mask, summary, shown>>

\* the pass that breaks out of the loop, and the construction of the result
SummaryBreak ==
    /\ pc = "summary"
    /\ pairs # <<>>
    /\ build = "debug" => ~SubOverflows(common_network_part_bits)
    /\ \E i \in 1..Len(pairs) :
           Disagrees(pairs[i], pairs[1], common_network_part_bits)
    /\ summary' = SummaryOf(pairs[1], common_network_part_bits)
    /\ pc' = "summary_ret"
    /\ UNCHANGED <<build, endian, lines, line_no, pairs, output, addr, s, mask_val,
                   temp_mask, counter, mask, common_network_part_bits, shown>>

\* debug build: "attempt to subtract with overflow" at the first pair
SummaryPanic ==
    /\ pc = "summary"
    /\ pairs # <<>>
    /\ build = "debug"
    /\ SubOverflows(common_network_part_bits)
    /\ pc' = "panic"
    /\ UNCHANGED <<build, endian, lines, line_no, pairs, output, addr, s, mask_val,
                   temp_mask, counter, mask, common_network_part_bits, summary, shown>>

----------------------------------------------------------------------------
(* IPv4Mask::parse(s), one action per pass of the scan of the host bits.   *)

\* a check that turns the prefix length 32 away
MaskFromIntegerBelow32(x) == IF x >= 32 THEN NoneMask ELSE SomeMask(x)

\* the plain-integer form: `if x > 32 { return None; } x`
MaskFromInteger(x) == IF x > 32 THEN NoneMask ELSE SomeMask(x)

\* the dotted form after the scan: `if u32::MAX << host_bits != mask
\* { return None; } 32 - host_bits`
MaskFromDotted(m, host_bits) ==
    IF Shl(U32Max, host_bits) # m THEN NoneMask ELSE SomeMask(32 - host_bits)

\* `temp_mask & (1 << 0) == 0`
LowBitClear(x) == BitAnd(x, Shl(One32, 0)) = Zero32

MaskParseOctetsNone ==
    /\ pc = "mask_parse"
    /\ Contains(s, ".")
    /\ ~ParseOctets(s, endian).some
    /\ mask' = NoneMask
    /\ pc' = "mask_ret"
    /\ UNCHANGED <<build, endian, lines, line_no, pairs, output, addr, s, mask_val,
                   temp_mask, counter, common_network_part_bits, summary, shown>>

MaskScanStart ==
    /\ pc = "mask_parse"
    /\ Contains(s, ".")
    /\ ParseOctets(s, endian).some
    /\ mask_val' = ParseOctets(s, endian).v
    /\ temp_mask' = ParseOctets(s, endian).v
    /\ counter' = 0
    /\ pc' = "mask_scan"
    /\ UNCHANGED <<build, endian, lines, line_no, pairs, output, addr, s, mask,
                   common_network_part_bits, summary, shown>>

MaskScanIter ==
    /\ pc = "mask_scan"
    /\ LowBitClear(temp_mask)
    /\ counter < MaxCount
    /\ counter' = counter + 1
    /\ temp_mask' = Shr(temp_mask, 1)
    /\ UNCHANGED <<build, endian, pc, lines, line_no, pairs, output, addr, s, mask_val,
                   mask, common_network_part_bits, summary, shown>>

\* the scan ends at a set bit, which is among the 32 bits: host_bits < 32
MaskScanExit ==
    /\ pc = "mask_scan"
    /\ ~LowBitClear(temp_mask)
    /\ mask' = MaskFromDotted(mask_val, counter)
    /\ pc' = "mask_ret"
    /\ UNCHANGED <<build, endian, lines, line_no, pairs, output, addr, s, mask_val,
                   temp_mask, counter, common_network_part_bits, summary, shown>>

MaskParseInteger ==
    /\ pc = "mask_parse"
    /\ ~Contains(s, ".")
    /\ ParseUsize(s) # ParseErr
    /\ mask' = MaskFromInteger(ParseUsize(s))
    /\ pc' = "mask_ret"
    /\ UNCHANGED <<build, endian, lines, line_no, pairs, output, addr, s, mask_val,
                   temp_mask, counter, common_network_part_bits, summary, shown>>

\* `Err(e) => panic!("{}", e)`
MaskParsePanic ==
    /\ pc = "mask_parse"
    /\ ~Contains(s, ".")
    /\ ParseUsize(s) = ParseErr
    /\ pc' = "panic"
    /\ UNCHANGED <<build, endian, lines, line_no, pairs, output, addr, s, mask_val,
                   temp_mask, counter, mask, common_network_part_bits, summary, shown>>

----------------------------------------------------------------------------
(* IPv4Address::parse(s) and the Display of its result.                    *)

AddrParse ==
    /\ pc = "addr_parse"
    /\ addr' = IPv4AddressParse(s, endian)
    /\ pc' = "addr_ret"
    /\ UNCHANGED <<build, endian, lines, line_no, pairs, output, s, mask_val,
                   temp_mask, counter, mask, common_network_part_bits, summary, shown>>

AddrDisplay ==
    /\ pc = "addr_ret"
    /\ addr.some
    /\ shown' = DisplayAddress(addr.v)
    /\ pc' = "addr_shown"
    /\ UNCHANGED <<build, endian, lines, line_no, pairs, output, addr, s, mask_val,
                   temp_mask, counter, mask, common_network_part_bits, summary>>

----------------------------------------------------------------------------
(* main: the loop over the records, then the summary. A record is          *)
(* [ok |-> whether the reader yielded Ok, text |-> the line].              *)

Cur == lines[line_no + 1]

Parts == Split(Cur.text, "/")

\* the line printed for an accepted pair: "{}/{}"
EchoLine(a, m) == DisplayAddress(a) \o <<"/">> \o DisplayMask(m)

\* `addr.0 != addr.0 & mask.netid_mask()`
HostBitsSet(a, m) == a # BitAnd(a, NetidMask(m))

\* `if let Ok(l) = line` has no else: an Err of the reader is passed over
MainSkipUnreadable ==
    /\ pc = "main"
    /\ line_no < Len(lines)
    /\ ~Cur.ok
    /\ line_no' = line_no + 1
    /\ UNCHANGED <<build, endian, pc, lines, pairs, output, addr, s, mask_val,
                   temp_mask, counter, mask, common_network_part_bits, summary, shown>>

\* `panic!("invalid line")`
MainInvalidLine ==
    /\ pc = "main"
    /\ line_no < Len(lines)
    /\ Cur.ok
    /\ Len(Parts) # 2
    /\ line_no' = line_no + 1
    /\ pc' = "panic"
    /\ UNCHANGED <<build, endian, lines, pairs, output, addr, s, mask_val,
                   temp_mask, counter, mask, common_network_part_bits, summary, shown>>

\* `IPv4Address::parse(parts[0].trim()).unwrap()` on None
MainAddrNone ==
    /\ pc = "main"
    /\ line_no < Len(lines)
    /\ Cur.ok
    /\ Len(Parts) = 2
    /\ ~IPv4AddressParse(Trim(Parts[1]), endian).some
    /\ addr' = NoneU32
    /\ line_no' = line_no + 1
    /\ pc' = "panic"
    /\ UNCHANGED <<build, endian, lines, pairs, output, s, mask_val,
                   temp_mask, counter, mask, common_network_part_bits, summary, shown>>

\* the address parsed: the call of IPv4Mask::parse(parts[1].trim())
MainParseMask ==
    /\ pc = "main"
    /\ line_no < Len(lines)
    /\ Cur.ok
    /\ Len(Parts) = 2
    /\ IPv4AddressParse(Trim(Parts[1]), endian).some
    /\ addr' = IPv4AddressParse(Trim(Parts[1]), endian)
    /\ s' = Trim(Parts[2])
    /\ line_no' = line_no + 1
    /\ pc' = "mask_parse"
    /\ UNCHANGED <<build, endian, lines, pairs, output, mask_val,
                   temp_mask, counter, mask, common_network_part_bits, summary, shown>>

\* `.unwrap()` of the None IPv4Mask::parse returned
MainMaskNone ==
    /\ pc = "mask_ret"
    /\ ~mask.some
    /\ pc' = "panic"
    /\ UNCHANGED <<build, endian, lines, line_no, pairs, output, addr, s, mask_val,
                   temp_mask, counter, mask, common_network_part_bits, summary, shown>>

\* `panic!("invalid mask: ...")`
MainHostBits ==
    /\ pc = "mask_ret"
    /\ mask.some
    /\ HostBitsSet(addr.v, mask.v)
    /\ pc' = "panic"
    /\ UNCHANGED <<build, endian, lines, line_no, pairs, output, addr, s, mask_val,
                   temp_mask, counter, mask, common_network_part_bits, summary, shown>>

\* the pair is printed and pushed
MainAccept ==
    /\ pc = "mask_ret"
    /\ mask.some
    /\ ~HostBitsSet(addr.v, mask.v)
    /\ output' = Append(output, [kind |-> "pair", text |-> EchoLine(addr.v, mask.v)])
    /\ pairs' = Append(pairs, [ip |-> addr.v, mask |-> mask.v])
    /\ pc' = "main"
    /\ UNCHANGED <<build, endian, lines, line_no, addr, s, mask_val,
                   temp_mask, counter, mask, common_network_part_bits, summary, shown>>

\* the reader is exhausted: `create_summary_route(pairs)` is called
MainCallSummary ==
    /\ pc = "main"
    /\ line_no = Len(lines)
    /\ common_network_part_bits' = 0
    /\ pc' = "summary"
    /\ UNCHANGED <<build, endian, lines, line_no, pairs, output, addr, s, mask_val,
                   temp_mask, counter, mask, summary, shown>>

\* `println!("summary: {} {}", summary.0, summary.1)`
MainPrintSummary ==
    /\ pc = "summary_ret"
    /\ output' = Append(output,
                    [kind |-> "summary",
                     text |-> DisplayAddress(summary.ip) \o <<" ">> \o DisplayMask(summary.mask)])
    /\ pc' = "done"
    /\ UNCHANGED <<build, endian, lines, line_no, pairs, addr, s, mask_val,
                   temp_mask, counter, mask, common_network_part_bits, summary, shown>>

----------------------------------------------------------------------------
(* The inputs the specifications draw from.                                *)

Builds == {"debug", "release"}

Endians == {"little", "big"}

BoundedSeq(S, n) == UNION {[1..k -> S] : k \in 0..n}

\* the text a.b.c.d
Dotted(a, b, c, d) ==
    ToDec(a) \o <<".">> \o ToDec(b) \o <<".">> \o ToDec(c) \o <<".">> \o ToDec(d)

\* addresses given to create_summary_route
SummaryAddrs ==
    { PackMsbFirst(0, 0, 0, 0), PackMsbFirst(128, 0, 0, 0),
      PackMsbFirst(10, 0, 0, 0), PackMsbFirst(10, 0, 1, 0),
      PackMsbFirst(10, 0, 2, 0), PackMsbFirst(192, 168, 1, 0),
      PackMsbFirst(192, 168, 1, 5),
      PackMsbFirst(255, 255, 255, 255) }

SummaryPrefixes == {0, 8, 24, 32}

SummaryPairs == [ip : SummaryAddrs, mask : SummaryPrefixes]

AddrOctets == {0, 1, 10, 128, 255}

\* texts that are no address of four octets
BadAddrStrings ==
    { <<>>,
      <<"1", ".", "2", ".", "3">>,
      <<"1", ".", "2", ".", "3", ".", "4", ".", "5">>,
      <<"2", "5", "6", ".", "0", ".", "0", ".", "1">>,
      <<"1", ".", "2", ".", "x", ".", "4">>,
      <<"1", ".", ".", "2", ".", "3">>,
      <<"-", "1", ".", "2", ".", "3", ".", "4">>,
      <<"1", ".", "2", ".", "3", ".", "4", " ">>,
      <<"1", "2", "3", "4">> }

\* texts u8's parse accepts though they are not the canonical rendering
LooseAddrStrings ==
    { <<"+", "1", ".", "2", ".", "3", ".", "4">>,
      <<"0", "1", "0", ".", "0", ".", "0", "0", ".", "2", "5", "5">> }

AddrStrings ==
    { Dotted(a, b, c, d) : a \in AddrOctets, b \in AddrOctets,
                           c \in AddrOctets, d \in AddrOctets }
    \cup BadAddrStrings \cup LooseAddrStrings

\* the dotted rendering of the bitmask of n leading one-bits
DottedMask(n) == DisplayAddress(NetidMask(n))

ContiguousMaskStrings == { DottedMask(n) : n \in 0..32 }

NonContiguousMaskStrings ==
    { Dotted(255, 0, 255, 0), Dotted(0, 255, 0, 0), Dotted(255, 255, 255, 1),
      Dotted(0, 0, 0, 1), Dotted(128, 0, 0, 1), Dotted(255, 255, 0, 255),
      Dotted(255, 253, 0, 0), Dotted(127, 255, 255, 255), Dotted(10, 0, 0, 0) }

BadDottedMaskStrings ==
    { <<"2", "5", "5", ".", "2", "5", "5", ".", "0">>,
      <<"2", "5", "5", ".", "2", "5", "6", ".", "0", ".", "0">>,
      <<"2", "5", "5", ".", "x", ".", "0", ".", "0">>,
      <<".">> }

\* the largest number written as a plain-integer mask
MaxPrefixText == 40

\* the texts usize's parse reads as n: canonical, signed, zero-padded
IntegerTexts(n) == { ToDec(n), <<"+">> \o ToDec(n), <<"0">> \o ToDec(n) }

IntegerMaskStrings == UNION { IntegerTexts(n) : n \in 0..MaxPrefixText }

\* 21 digits: above usize::MAX
HugeInteger ==
    <<"1", "0", "0", "0", "0", "0", "0", "0", "0", "0", "0",
      "0", "0", "0", "0", "0", "0", "0", "0", "0", "0">>

\* texts without a "." that usize's parse rejects
BadIntegerMaskStrings ==
    { <<>>, <<"a", "b", "c">>, <<"-", "1">>, <<"2", "x">>, <<"1", " ", "2">>,
      <<"+">>, <<"/", "8">>, HugeInteger }

MaskStrings ==
    ContiguousMaskStrings \cup NonContiguousMaskStrings \cup BadDottedMaskStrings
    \cup IntegerMaskStrings \cup BadIntegerMaskStrings

Readable(text) == [ok |-> TRUE, text |-> text]

\* a record the reader fails on (a line that is not UTF-8)
Unreadable == [ok |-> FALSE, text |-> <<>>]

Slash(a, m) == a \o <<"/">> \o m

LineSet ==
    { Unreadable,
      Readable(Slash(Dotted(10, 0, 0, 0), ToDec(24))),
      Readable(Slash(Dotted(10, 0, 1, 0), ToDec(24))),
      Readable(Slash(Dotted(10, 0, 2, 0), Dotted(255, 255, 255, 0))),
      Readable(Slash(Dotted(10, 0, 0, 0), ToDec(8))),
      Readable(Slash(Dotted(0, 0, 0, 0), ToDec(0))),
      Readable(Slash(Dotted(128, 0, 0, 0), ToDec(8))),
      Readable(Slash(Dotted(192, 168, 1, 5), ToDec(24))),
      Readable(Slash(Dotted(0, 0, 0, 0), Dotted(0, 0, 0, 0))),
      Readable(<<" ">> \o Slash(Dotted(10, 0, 1, 0) \o <<" ">>, <<" ">> \o ToDec(24))),
      Readable(Dotted(10, 0, 0, 0)),
      Readable(Slash(<<"1", ".", "2", ".", "3">>, ToDec(24))),
      Readable(Slash(Dotted(10, 0, 0, 0), ToDec(33))),
      Readable(Slash(Dotted(10, 0, 0, 0), <<"a", "b", "c">>)),
      Readable(Slash(Dotted(10, 0, 0, 0), Dotted(255, 0, 255, 0))),
      Readable(Slash(Dotted(10, 0, 0, 0), <<"2", "5", "5", ".", "0", ".", "0">>)),
      Readable(<<>>) }

----------------------------------------------------------------------------
(* Specifications.                                                         *)

Target == build \in Builds /\ endian \in Endians

\* the variables a specification does not use
Idle(names) ==
    /\ "lines" \in names => lines = <<>> /\ line_no = 0 /\ output = <<>>
    /\ "pairs" \in names => pairs = <<>>
    /\ "addr" \in names => addr = NoneU32 /\ shown = <<>>
    /\ "s" \in names => s = <<>>
    /\ "mask" \in names =>
           mask_val = Zero32 /\ temp_mask = Zero32 /\ counter = 0 /\ mask = NoneMask
    /\ "summary" \in names =>
           common_network_part_bits = 0 /\ summary = [ip |-> Zero32, mask |-> 0]

\* main, from the first record to the summary line
Init ==
    /\ Target
    /\ lines \in BoundedSeq(LineSet, MaxLines)
    /\ line_no = 0
    /\ output = <<>>
    /\ pc = "main"
    /\ Idle({"pairs", "addr", "s", "mask", "summary"})

Next ==
    \/ MainSkipUnreadable
    \/ MainInvalidLine
    \/ MainAddrNone
    \/ MainParseMask
    \/ MaskParseOctetsNone
    \/ MaskScanStart
    \/ MaskScanIter
    \/ MaskScanExit
    \/ MaskParseInteger
    \/ MaskParsePanic
    \/ MainMaskNone
    \/ MainHostBits
    \/ MainAccept
    \/ MainCallSummary
    \/ SummaryIter
    \/ SummaryBreak
    \/ SummaryPanic
    \/ MainPrintSummary

Spec == Init /\ [][Next]_vars

\* create_summary_route on a list of pairs
InitSummary ==
    /\ Target
    /\ pairs \in BoundedSeq(SummaryPairs, MaxPairs)
    /\ pc = "summary"
    /\ Idle({"lines", "addr", "s", "mask", "summary"})

NextSummary == SummaryIter \/ SummaryBreak \/ SummaryPanic

SpecSummary == InitSummary /\ [][NextSummary]_vars

\* IPv4Mask::parse on a text
InitMask ==
    /\ Target
    /\ s \in MaskStrings
    /\ pc = "mask_parse"
    /\ Idle({"lines", "pairs", "addr", "mask", "summary"})
    /\ shown = <<>>

NextMask ==
    \/ MaskParseOctetsNone
    \/ MaskScanStart
    \/ MaskScanIter
    \/ MaskScanExit
    \/ MaskParseInteger
    \/ MaskParsePanic

SpecMask == InitMask /\ [][NextMask]_vars

\* IPv4Address::parse on a text, and the Display of the address
InitAddr ==
    /\ Target
    /\ s \in AddrStrings
    /\ pc = "addr_parse"
    /\ Idle({"lines", "pairs", "addr", "mask", "summary"})

NextAddr == AddrParse \/ AddrDisplay

SpecAddr == InitAddr /\ [][NextAddr]_vars

----------------------------------------------------------------------------
(* The vocabulary of the claims, defined apart from the code.              *)

\* the u32 of n leading one-bits and 32 - n zero-bits
LeadingOnes(n) == [i \in BitIdx |-> IF i <= n THEN 1 ELSE 0]

\* a and b agree on their n most significant bits
AgreeTop(a, b, n) == \A i \in 1..n : a[i] = b[i]

AllAgreeTop(ps, n) == \A i \in 1..Len(ps) : AgreeTop(ps[i].ip, ps[1].ip, n)

\* the greatest n in 0..32 such that every address agrees with the first on
\* its n most significant bits
CommonPrefixLen(ps) ==
    CHOOSE n \in 0..U32Width :
        AllAgreeTop(ps, n) /\ \A m \in (n + 1)..U32Width : ~AllAgreeTop(ps, m)

\* the RoutePair invariant: no bit set outside the mask
ProperPair(p) == BitAnd(p.ip, LeadingOnes(p.mask)) = p.ip

InSummary == pc \in {"summary", "summary_ret"}

----------------------------------------------------------------------------
(* Claims about create_summary_route, under SpecSummary.                   *)

\* C1: for every non-empty list, create_summary_route returns the greatest
\* n in 0..32 on whose n leading bits all addresses agree with the first
\* (32 for identical addresses), and the first address ANDed with n leading
\* one-bits. The function returns: it does not panic, and its counter, which
\* only grows, never passes the value to return.
C1_ReturnsLongestCommonPrefix ==
    pairs # <<>> =>
        /\ InSummary
        /\ common_network_part_bits <= CommonPrefixLen(pairs)
        /\ pc = "summary_ret" =>
               /\ summary.mask = CommonPrefixLen(pairs)
               /\ summary.ip = BitAnd(pairs[1].ip, LeadingOnes(CommonPrefixLen(pairs)))

\* C2: the summary that create_summary_route returns covers every input
\* address and is a proper network address: a AND bitmask = summary address
\* for every input a, and summary address AND bitmask = summary address.
C2_SummaryCoversInputs ==
    pc = "summary_ret" =>
        /\ \A i \in 1..Len(pairs) :
               BitAnd(pairs[i].ip, LeadingOnes(summary.mask)) = summary.ip
        /\ BitAnd(summary.ip, LeadingOnes(summary.mask)) = summary.ip

\* C2 witness: 10.0.0.0 and 10.0.1.0 were summarised to a /23
C2_Witness ==
    /\ pc = "summary_ret"
    /\ Len(pairs) = 2
    /\ pairs[1].ip = PackMsbFirst(10, 0, 0, 0)
    /\ pairs[2].ip = PackMsbFirst(10, 0, 1, 0)
    /\ summary = [ip |-> PackMsbFirst(10, 0, 0, 0), mask |-> 23]

\* C3: for a list of proper pairs, the prefix length of the returned summary
\* is at most the prefix length of every input pair.
C3_SummaryNotNarrowerThanMembers ==
    (pc = "summary_ret" /\ \A i \in 1..Len(pairs) : ProperPair(pairs[i])) =>
        \A i \in 1..Len(pairs) : summary.mask <= pairs[i].mask

\* C4: for a list of exactly one proper pair (a, p), create_summary_route
\* returns (a, p): it does not panic, its counter never passes p, and the
\* pair it returns is the input pair.
C4_SingletonUnchanged ==
    (Len(pairs) = 1 /\ ProperPair(pairs[1])) =>
        /\ InSummary
        /\ common_network_part_bits <= pairs[1].mask
        /\ pc = "summary_ret" => summary = pairs[1]

\* C10: create_summary_route on the empty list ends in a panic: it returns
\* no summary and does not run on, so its scan never passes the 32 bits of
\* an address.
C10_EmptyListAborts ==
    pairs = <<>> =>
        /\ pc \in {"summary", "panic"}
        /\ common_network_part_bits <= U32Width

----------------------------------------------------------------------------
(* Claims about IPv4Mask::parse, under SpecMask.                           *)

\* C6: on a little-endian target, for every n in 0..32 IPv4Mask::parse of
\* the dotted rendering of n leading one-bits returns n (so its scan counts
\* 32 - n host bits and no more), and of a dotted text whose bits are not
\* 1^n 0^(32-n) it returns none.
C6_DottedMaskRoundTrip ==
    endian = "little" =>
        /\ \A n \in 0..U32Width :
               s = Dotted(LowByte(Shr(LeadingOnes(n), 24)), LowByte(Shr(LeadingOnes(n), 16)),
                          LowByte(Shr(LeadingOnes(n), 8)), LowByte(LeadingOnes(n))) =>
                   /\ pc # "panic"
                   /\ counter <= U32Width - n
                   /\ pc = "mask_ret" => (mask.some /\ mask.v = n)
        /\ (s \in NonContiguousMaskStrings /\ pc = "mask_ret") => ~mask.some

\* C7 as claimed: for a text without ".", IPv4Mask::parse returns none both
\* when the text is no valid non-negative integer and when the integer
\* exceeds 32, and returns the integer as the prefix length otherwise.
C7_BadIntegerReturnsNone ==
    (~Contains(s, ".") /\ pc # "mask_parse") =>
        /\ pc = "mask_ret"
        /\ \A n \in 0..MaxPrefixText :
               s \in IntegerTexts(n) =>
                   IF n > 32 THEN ~mask.some ELSE (mask.some /\ mask.v = n)
        /\ s \in BadIntegerMaskStrings => ~mask.some

\* C7 as amended: for a text without ".", IPv4Mask::parse returns none when
\* the text is read as a usize above 32, returns the number as the prefix
\* length when it is read as a usize of at most 32, and panics, returning
\* nothing, when the text is not read as a usize.
C7_BadIntegerPanics ==
    (~Contains(s, ".") /\ pc # "mask_parse") =>
        /\ \A n \in 0..MaxPrefixText :
               s \in IntegerTexts(n) =>
                   /\ pc = "mask_ret"
                   /\ IF n > 32 THEN ~mask.some ELSE (mask.some /\ mask.v = n)
        /\ s \in BadIntegerMaskStrings => pc = "panic"

\* C7 witness: IPv4Mask::parse("abc") has panicked
C7_Witness == pc = "panic" /\ s = <<"a", "b", "c">>

----------------------------------------------------------------------------
(* Claims about IPv4Address::parse and Display, under SpecAddr.            *)

\* C9: parse_octets returns none unless the text has four components in
\* 0..255; for a.b.c.d it returns the u32 with a in the most significant
\* byte on every target, and Display of the parsed address is a.b.c.d.
C9_ParseOctetsMsbFirst ==
    /\ \A a \in AddrOctets, b \in AddrOctets, c \in AddrOctets, d \in AddrOctets :
           (s = Dotted(a, b, c, d) /\ pc # "addr_parse") =>
               /\ addr.some
               /\ addr.v = PackMsbFirst(a, b, c, d)
               /\ pc = "addr_shown" => shown = s
    /\ (s \in BadAddrStrings /\ pc # "addr_parse") => ~addr.some

----------------------------------------------------------------------------
(* Claims about main, under Spec.                                          *)

\* C5: each bit-scanning loop makes at most 32 passes: the scan of the host
\* bits in IPv4Mask::parse, for every parsed mask value, and the scan of the
\* common prefix in create_summary_route, for every non-empty list, never
\* count past 32.
C5_ScansBoundedBy32 ==
    /\ pc = "mask_scan" => counter <= U32Width
    /\ (pc = "summary" /\ pairs # <<>>) => common_network_part_bits <= U32Width

PairLines == SelectSeq(output, LAMBDA o : o.kind = "pair")

SummaryLines == SelectSeq(output, LAMBDA o : o.kind = "summary")

\* C8: the first record that cannot be read or parsed, or has bits outside
\* its mask, aborts the run: while main runs on, every record consumed so
\* far was accepted and echoed, and the summary is computed once, after all
\* records were accepted, over proper pairs only.
C8_FirstBadRecordAborts ==
    /\ pc = "main" => Len(pairs) = line_no
    /\ pc \in {"summary", "summary_ret", "done"} =>
           (line_no = Len(lines) /\ Len(pairs) = Len(lines))
    /\ Len(PairLines) = Len(pairs)
    /\ \A i \in 1..Len(pairs) : ProperPair(pairs[i])
    /\ Len(SummaryLines) = (IF pc = "done" THEN 1 ELSE 0)

====
